---- MODULE Spec2Model ----
(***************************************************************************)
(* riqoto/visualize: the visualization orchestration layer.                *)
(*                                                                         *)
(* The model follows src/visualize/visualize.py (VisualizationHandler and  *)
(* VisualizationWorkflow) and src/visualize/file.py (File, FileHandler).   *)
(* The program is single-threaded; its state is the workflow's position    *)
(* (pc), the objects' fields and the locals that live across a prompt.     *)
(* The environment is the file system (the definitions Kind, Extension,    *)
(* Parses, Columns) and the answers the user gives at the prompts, "q"     *)
(* being the quit keystroke that InquirerPy turns into KeyboardInterrupt.  *)
(* Everything the program prints, every prompt it shows, every file it     *)
(* reads and every strategy call is appended to the history variable       *)
(* trace, so that ordering and counting properties are state predicates.   *)
(***************************************************************************)
EXTENDS Integers, Sequences, FiniteSets, TLC

VARIABLES
    backend,         \* matplotlib.get_backend() (None: visualize.py not imported yet)
    config_path,     \* CLIConfig.path (None: the workflow is used without the CLI)
    selected_files,  \* CLI.run: the names returned by create_files_prompt
    file_paths,      \* the batch handed to the workflow (list[str])
    mode,            \* which workflow runs: single / shared / independent / comparison
    pc,              \* position of the single thread of control
    status,          \* running / returned / exited (SystemExit) / crashed (uncaught)
    i,               \* 1-based index of the loop over files or file handlers
    file_handlers,   \* _run_same_visualization_for_all: the loaded files, in order
    all_data,        \* _run_comparison: the loaded files, in order
    viz_handler,     \* the VisualizationHandler in use: file, strategy, config
    viz_type,        \* the chart type returned by prompt_visualization_type
    config,          \* the dict returned by prompt_configuration to its caller
    x_col,           \* local x_col of prompt_configuration / _run_comparison
    y_col,           \* local y_col of prompt_configuration / _run_comparison
    rows,            \* local rows of prompt_configuration (0: not asked yet)
    common_columns,  \* _run_comparison: sorted list of the common columns
    selected,        \* _run_comparison: the chosen comparison chart type
    trace            \* history: loads, prompts, messages, strategy calls

vars == <<backend, config_path, selected_files, file_paths, mode, pc, status,
          i, file_handlers, all_data, viz_handler,
          viz_type, config, x_col, y_col, rows, common_columns, selected, trace>>

----------------------------------------------------------------------------
(* Bounds of the model *)

MaxFiles == 3
MaxCharts == 2
MaxCalls == 3

----------------------------------------------------------------------------
(* The file system the program runs against *)

Files == {"a.csv", "b.csv", "c.txt", "e.json", "gone.csv", "dir", "d.parquet", "bad.json"}

Kind(f) ==
    CASE f = "gone.csv" -> "missing"
      [] f = "dir" -> "dir"
      [] OTHER -> "file"

Extension(f) ==
    CASE f \in {"a.csv", "b.csv", "gone.csv"} -> ".csv"
      [] f = "c.txt" -> ".txt"
      [] f = "d.parquet" -> ".parquet"
      [] f \in {"bad.json", "e.json"} -> ".json"
      [] OTHER -> ""

Parses(f) == f # "bad.json"

Columns(f) ==
    CASE f = "a.csv" -> <<"x", "y", "z">>
      [] f = "b.csv" -> <<"x", "y", "w">>
      [] f = "c.txt" -> <<"p">>
      [] OTHER -> << >>

\* the number of data rows of the frame read from the file: e.json holds []
Rows(f) ==
    CASE f = "a.csv" -> 5
      [] f = "b.csv" -> 12
      [] f = "c.txt" -> 2
      [] OTHER -> 0

\* the frame read from the file, each data row named by its position in the file
Data(f) == [k \in 1..Rows(f) |-> k]

\* what the user may type at the text prompts
TypedRows == {"3", "10", "0", "-1", "abc"}
TableTitles == {"Data Table", "Q1 sales"}
ChartTitles(t) == {t, "Q1 sales"}
Range(s) == {s[k] : k \in DOMAIN s}

IsInjective(s) == \A a, b \in DOMAIN s : s[a] = s[b] => a = b

Batches ==
    {s \in UNION {[1..n -> Files] : n \in 1..MaxFiles} : IsInjective(s)}

----------------------------------------------------------------------------
(* Enumerations of the program *)

LINE_CHART == "Line Chart"
BAR_CHART == "Bar Chart"
HISTOGRAM == "Histogram"
TABLE == "Table"

VisualizationType == <<LINE_CHART, BAR_CHART, HISTOGRAM, TABLE>>

FileExtension == {".csv", ".xlsx", ".xls", ".json", ".txt"}

None == "None"

Quit == "q"

EmptyBag == [k \in {} |-> None]

IsEmptyBag(d) == DOMAIN d = {}

Get(d, k) == IF k \in DOMAIN d THEN d[k] ELSE None

\* str.isdigit
isdigit(text) == text \in {"3", "10", "0"}

\* int(text) of a text that int accepts
int(text) ==
    CASE text = "3" -> 3
      [] text = "10" -> 10
      [] text = "0" -> 0
      [] text = "-1" -> 0 - 1

\* (variant: the rows prompt accepting every integer)
validate_rows_any_integer(x) == x \in {"3", "10", "0", "-1"}

\* the rows prompt: validate=lambda x: x.isdigit() and int(x) > 0
validate_rows(x) == isdigit(x) /\ int(x) > 0

\* the texts the rows prompt can return: an invalid text is refused with
\* "Please enter a positive number" and the prompt stays open
RowChoices == {x \in TypedRows : validate_rows(x)}

Min(a, b) == IF a < b THEN a ELSE b

Max(a, b) == IF a > b THEN a ELSE b

\* DataFrame.head(n): the first n rows, or all but the last -n for n < 0
head(data, n) ==
    IF n >= 0
    THEN SubSeq(data, 1, Min(n, Len(data)))
    ELSE SubSeq(data, 1, Max(Len(data) + n, 0))

\* dict.update
Update(d, kwargs) ==
    [k \in DOMAIN d \cup DOMAIN kwargs |-> IF k \in DOMAIN kwargs THEN kwargs[k] ELSE d[k]]

----------------------------------------------------------------------------
(* Exceptions: SystemExit and KeyboardInterrupt derive from BaseException, *)
(* so an "except Exception" clause catches neither.                        *)

NoExc == [exc |-> None, msg |-> ""]

Exc(e, m) == [exc |-> e, msg |-> m]

ExceptException(e) == e \in {"Exception", "ValueError", "ParserError", "IndexError", "KeyError"}

----------------------------------------------------------------------------
(* file.py: File and FileHandler *)

\* File.__post_init__: sys.exit on a missing path or a path that is no file
PostInit(f) ==
    IF Kind(f) = "missing" THEN Exc("SystemExit", "An Error occur: File does not exist")
    ELSE IF Kind(f) # "file" THEN Exc("SystemExit", "An Error occur: is not a File")
    ELSE NoExc

\* File.validate_suffix
validate_suffix(f) == Extension(f) \in FileExtension

\* the try body of FileHandler.read_file: the pandas reader chosen by extension
ReadDispatch(f) ==
    IF Extension(f) \notin FileExtension THEN Exc("ValueError", "Unsupported file type")
    ELSE IF ~Parses(f) THEN Exc("ParserError", "parse error")
    ELSE NoExc

\* FileHandler.read_file: every Exception of the try body becomes sys.exit
read_file(f) ==
    LET r == ReadDispatch(f)
    IN  IF ExceptException(r.exc) THEN Exc("SystemExit", "Error reading file") ELSE r

\* File(file_path); file.__post_init__(); FileHandler(file); fh.read_file()
LoadFile(f) ==
    LET p == PostInit(f)
    IN  IF p.exc # None THEN p ELSE read_file(f)

\* (variant: the column names of another frame than the handler's own)
get_column_names_of_another(f) == Columns("a.csv")

\* FileHandler.get_column_names of a loaded file
get_column_names(f) == Columns(f)

----------------------------------------------------------------------------
(* visualize.py: strategies and VisualizationHandler *)

Msg(m) == <<"msg", m>>

\* the user pressed q at the prompt just shown: InquirerPy raises KeyboardInterrupt
Interrupt(tr) == Append(tr, <<"quit", Quit>>)

\* (variant: the Histogram entry of self.strategies not commented out)
strategies_with_histogram(t) == t

\* VisualizationHandler.__init__: self.strategies, Histogram commented out
strategies(t) == IF t \in {LINE_CHART, BAR_CHART, TABLE} THEN t ELSE None

\* VisualizationHandler.__init__ on the FileHandler of f, whose read_file has
\* set self.data to the frame (named by its file)
NewHandler(f) == [file |-> f, data |-> f, strategy |-> None, config |-> EmptyBag]

NoHandler == NewHandler(None)

\* VisualizationHandler.set_strategy: the handler afterwards
set_strategy(h, t) == [h EXCEPT !.strategy = strategies(t)]

\* VisualizationHandler.set_strategy: what it prints
set_strategy_out(t) ==
    IF strategies(t) = None THEN << Msg("not implemented yet") >> ELSE << >>

\* (variant: configure replacing self.config by the new parameters)
configure_replacing(h, kwargs) == [h EXCEPT !.config = kwargs]

\* VisualizationHandler.configure
configure(h, kwargs) == [h EXCEPT !.config = Update(h.config, kwargs)]

\* TableStrategy.create_visualization: rows = config.get("rows", 10);
\* display_data = data.head(rows)
display_data(f, cfg) ==
    head(Data(f), IF "rows" \in DOMAIN cfg THEN cfg["rows"] ELSE 10)

\* LineChartStrategy / BarChartStrategy / TableStrategy .create_visualization:
\* data[x_col] and data[y_col] raise KeyError on a column the frame lacks,
\* ax.table raises IndexError on a cellText without rows
StrategyCall(s, f, cfg) ==
    IF s \in {LINE_CHART, BAR_CHART}
    THEN IF /\ Get(cfg, "x_axis") \in Range(Columns(f))
            /\ Get(cfg, "y_axis") \in Range(Columns(f))
         THEN NoExc
         ELSE Exc("KeyError", "column")
    ELSE IF Len(display_data(f, cfg)) = 0
         THEN Exc("IndexError", "index 0 is out of bounds")
         ELSE NoExc

\* if matplotlib.get_backend() != "Agg": plt.show() else: plt.savefig(filename)
Output(b) == IF b # "Agg" THEN "shown" ELSE "saved"

\* title.replace(' ', '_') on the titles of the model
replace(title) ==
    CASE title = "Data Table" -> "Data_Table"
      [] title = "Q1 sales" -> "Q1_sales"
      [] title = LINE_CHART -> "Line_Chart"
      [] title = BAR_CHART -> "Bar_Chart"
      [] OTHER -> title

\* (variant: the name of the dataset made part of the file name)
filename_per_dataset(s, f, cfg) ==
    CASE s = LINE_CHART -> f \o "_line_chart_" \o cfg["x_axis"] \o "_" \o cfg["y_axis"] \o ".png"
      [] s = BAR_CHART -> f \o "_bar_chart_" \o cfg["x_axis"] \o "_" \o cfg["y_axis"] \o ".png"
      [] s = TABLE -> f \o "_table_" \o replace(Get(cfg, "title")) \o ".png"

\* the f-strings naming the saved figure of a strategy call that got as far
\* as plt.savefig; the frame f takes no part in the name
filename(s, f, cfg) ==
    CASE s = LINE_CHART -> "line_chart_" \o cfg["x_axis"] \o "_" \o cfg["y_axis"] \o ".png"
      [] s = BAR_CHART -> "bar_chart_" \o cfg["x_axis"] \o "_" \o cfg["y_axis"] \o ".png"
      [] s = TABLE ->
           "table_" \o replace(IF "title" \in DOMAIN cfg THEN cfg["title"] ELSE "Data Table")
                    \o ".png"

\* the strategy call as a history event; shown: the data rows of the table
\* drawn; path: the file plt.savefig wrote
Render(h) == <<"render", [file |-> h.file, type |-> h.strategy, config |-> h.config,
                          ok |-> StrategyCall(h.strategy, h.file, h.config).exc = None,
                          out |-> Output(backend),
                          path |-> IF /\ Output(backend) = "saved"
                                      /\ StrategyCall(h.strategy, h.file, h.config).exc = None
                                   THEN filename(h.strategy, h.file, h.config)
                                   ELSE None,
                          shown |-> IF /\ h.strategy = TABLE
                                       /\ StrategyCall(h.strategy, h.file, h.config).exc = None
                                    THEN display_data(h.file, h.config)
                                    ELSE << >>]>>

\* (variant: create_visualization also refusing an empty self.config)
create_visualization_needs_config(h) ==
    IF h.strategy = None \/ IsEmptyBag(h.config)
    THEN << Msg("No visualization strategy set") >>
    ELSE IF ExceptException(StrategyCall(h.strategy, h.file, h.config).exc)
         THEN << Render(h), Msg("Error creating visualization") >>
         ELSE << Render(h) >>

\* (variant: the except branch printing nothing)
create_visualization_unreported(h) ==
    IF h.strategy = None
    THEN << Msg("No visualization strategy set") >>
    ELSE << Render(h) >>

\* (variant: get_data reading the file on every call)
get_data_rereading(h) == << <<"load", h.file>> >>

\* FileHandler.get_data: if self.data is None: self.read_file(); the reads
\* it makes, as history events
get_data(h) == IF h.data = None THEN << <<"load", h.file>> >> ELSE << >>

\* VisualizationHandler.create_visualization: what it does, as history events
create_visualization(h) ==
    IF h.strategy = None
    THEN << Msg("No visualization strategy set") >>
    ELSE IF ExceptException(StrategyCall(h.strategy, h.file, h.config).exc)
         THEN get_data(h) \o << Render(h), Msg("Error creating visualization") >>
         ELSE get_data(h) \o << Render(h) >>

----------------------------------------------------------------------------
(* Control: how a call returns or an exception travels up the call stack.  *)
(* Each of these sets pc, status, i and trace.                             *)

Finish(st, tr) ==
    /\ pc' = "done"
    /\ status' = st
    /\ i' = i
    /\ trace' = tr

\* no handler on the stack: sys.exit ends the process with its message, any
\* other exception ends it with a traceback
Uncaught(e, tr) ==
    IF e.exc = "SystemExit"
    THEN Finish("exited", Append(tr, <<"exit", e.msg>>))
    ELSE Finish("crashed", Append(tr, <<"uncaught", e.exc>>))

\* run_with_shared_config: the mode's method returned
WorkflowReturn(tr) == Finish("returned", Append(tr, Msg("All files processed!")))

\* _run_different_visualization_for_each: the next iteration of the loop
NextFile(tr) ==
    IF i < Len(file_paths)
    THEN /\ pc' = "setup_file"
         /\ status' = status
         /\ i' = i + 1
         /\ trace' = tr
    ELSE WorkflowReturn(tr)

\* interactive_visualization returned to run or to the loop over the files
SessionReturn(tr) ==
    IF mode = "single"
    THEN Finish("returned", Append(tr, Msg("Workflow completed!")))
    ELSE NextFile(tr)

\* (variant: Shared mode going on to the rendering loop without a configuration)
NoConfiguration_unchecked(tr) ==
    IF mode = "shared"
    THEN /\ pc' = "render"
         /\ status' = status
         /\ i' = 1
         /\ trace' = tr
    ELSE SessionReturn(tr)

\* (variant: the session going on to create_visualization without a configuration)
NoConfiguration_session_unchecked(tr) ==
    IF mode = "shared"
    THEN WorkflowReturn(tr)
    ELSE /\ pc' = "render"
         /\ status' = status
         /\ i' = i
         /\ trace' = tr

\* the caller's "if viz_type is None" / "if not config": break or return
NoConfiguration(tr) ==
    IF mode = "shared" THEN WorkflowReturn(tr) ELSE SessionReturn(tr)

\* (variant: the loop's "except Exception" going on without printing)
Propagate_silent(e, tr) ==
    IF mode = "independent" /\ e.exc = "KeyboardInterrupt"
    THEN WorkflowReturn(Append(tr, Msg("Skipping remaining files...")))
    ELSE IF mode = "independent" /\ ExceptException(e.exc)
    THEN NextFile(tr)
    ELSE Uncaught(e, tr)

\* an exception leaving setup_file or setup_visualization: only the loop of
\* _run_different_visualization_for_each has try/except around them
Propagate(e, tr) ==
    IF mode = "independent" /\ e.exc = "KeyboardInterrupt"
    THEN WorkflowReturn(Append(tr, Msg("Skipping remaining files...")))
    ELSE IF mode = "independent" /\ ExceptException(e.exc)
    THEN NextFile(Append(tr, <<"msg", "Error processing", file_paths[i]>>))
    ELSE Uncaught(e, tr)

----------------------------------------------------------------------------
(* Initial state: a workflow object, a batch of paths, nothing done yet *)

Init ==
    /\ backend = "TkAgg"
    /\ config_path = None
    /\ selected_files = << >>
    /\ file_paths \in Batches
    /\ mode = None
    /\ pc = "start"
    /\ status = "running"
    /\ i = 0
    /\ file_handlers = << >>
    /\ all_data = << >>
    /\ viz_handler = NoHandler
    /\ viz_type = None
    /\ config = EmptyBag
    /\ x_col = None
    /\ y_col = None
    /\ rows = 0
    /\ common_columns = << >>
    /\ selected = None
    /\ trace = << >>

\* the same in a process whose backend is "Agg": the embedding program
\* called matplotlib.use("Agg") after it imported visualize.py (the import
\* itself never leaves "Agg" selected in a live process)
InitFileOutput ==
    /\ backend = "Agg"
    /\ config_path = None
    /\ selected_files = << >>
    /\ file_paths \in Batches
    /\ mode = None
    /\ pc = "start"
    /\ status = "running"
    /\ i = 0
    /\ file_handlers = << >>
    /\ all_data = << >>
    /\ viz_handler = NoHandler
    /\ viz_type = None
    /\ config = EmptyBag
    /\ x_col = None
    /\ y_col = None
    /\ rows = 0
    /\ common_columns = << >>
    /\ selected = None
    /\ trace = << >>

Modes == {"shared", "independent", "comparison"}

\* the single-dataset flow is explored on every file but b.csv, which
\* differs from a.csv by the name of one column only
SingleFiles == Files \ {"b.csv"}

\* VisualizationWorkflow.run(file_path), up to the call of setup_file; the
\* CLI never calls it
run ==
    /\ pc = "start"
    /\ config_path = None
    /\ Len(file_paths) = 1
    /\ file_paths[1] \in SingleFiles
    /\ mode' = "single"
    /\ pc' = "setup_file"
    /\ i' = 1
    /\ UNCHANGED <<backend, config_path, selected_files, file_paths,
                   status, file_handlers, all_data, viz_handler, viz_type,
                   config, x_col, y_col, rows, common_columns, selected, trace>>

\* VisualizationWorkflow.run_with_shared_config: the mode prompt answered with
\* answer, and the dispatch; the prompt stands outside any try
ModePrompt(answer) ==
    /\ pc = "start"
    /\ LET tr == Append(trace, <<"prompt", "mode">>)
       IN  IF answer = Quit
           THEN /\ Uncaught(Exc("KeyboardInterrupt", ""), Interrupt(tr))
                /\ mode' = mode
           ELSE /\ mode' = answer
                /\ pc' = IF answer = "independent" THEN "setup_file" ELSE "load"
                /\ i' = 1
                /\ status' = status
                /\ trace' = tr
    /\ UNCHANGED <<backend, config_path, selected_files, file_paths,
                   file_handlers, all_data, viz_handler, viz_type,
                   config, x_col, y_col, rows, common_columns, selected>>

\* (variant: the handler of the file before kept, bound to the new file)
setup_visualization_reusing(f) ==
    IF viz_handler.file = None
    THEN NewHandler(f)
    ELSE [viz_handler EXCEPT !.file = f, !.data = f]

\* setup_visualization: self.viz_handler = VisualizationHandler(self.file_handler)
setup_visualization(f) == NewHandler(f)

\* setup_file(file_path) and setup_visualization up to the first prompt
setup_file ==
    /\ pc = "setup_file"
    /\ LET f == file_paths[i]
           p == PostInit(f)
           r == IF p.exc # None THEN p
                ELSE IF ~validate_suffix(f) THEN Exc("SystemExit", "Unsupported file type")
                ELSE read_file(f)
       IN  IF r.exc # None
           THEN /\ Propagate(r, trace)
                /\ viz_handler' = viz_handler
           ELSE /\ viz_handler' = setup_visualization(f)
                /\ pc' = "type"
                /\ trace' = Append(trace, <<"load", f>>)
                /\ UNCHANGED <<status, i>>
    /\ UNCHANGED <<backend, config_path, selected_files, file_paths,
                   mode, file_handlers, all_data, viz_type,
                   config, x_col, y_col, rows, common_columns, selected>>

----------------------------------------------------------------------------
(* VisualizationHandler: the prompts, each with the caller's next lines *)

Session == mode \in {"single", "independent"}

NumRenders(tr) == Len(SelectSeq(tr, LAMBDA e : e[1] = "render"))

\* the answers explored at the chart-type prompt: once MaxCharts charts were
\* drawn in this run the user asks for no further one
TypeAnswers ==
    {t \in Range(VisualizationType) : strategies(t) = None \/ NumRenders(trace) < MaxCharts}
        \cup {Quit}

\* prompt_visualization_type, and the caller's "if viz_type is None"
prompt_visualization_type ==
    /\ pc = "type"
    /\ \E answer \in TypeAnswers :
         LET tr == Append(trace, <<"prompt", "type", answer>>)
         IN  IF answer = Quit
             THEN /\ NoConfiguration(Append(Interrupt(tr), Msg("Exiting...")))
                  /\ viz_type' = None
             ELSE /\ viz_type' = answer
                  /\ pc' = "set_strategy"
                  /\ trace' = tr
                  /\ UNCHANGED <<status, i>>
    /\ UNCHANGED <<backend, config_path, selected_files, file_paths,
                   mode, file_handlers, all_data, viz_handler,
                   config, x_col, y_col, rows, common_columns, selected>>

\* the caller's viz_handler.set_strategy(viz_type)
SetStrategy ==
    /\ pc = "set_strategy"
    /\ viz_handler' = set_strategy(viz_handler, viz_type)
    /\ trace' = trace \o set_strategy_out(viz_type)
    /\ pc' = "prompt_configuration"
    /\ UNCHANGED <<backend, config_path, selected_files, file_paths,
                   mode, status, i, file_handlers, all_data, viz_type,
                   config, x_col, y_col, rows, common_columns, selected>>

\* prompt_configuration: self.configure(**config); return config, and the
\* caller's "if not config"
ReturnConfig(cfg, tr) ==
    /\ viz_handler' = configure(viz_handler, cfg)
    /\ config' = cfg
    /\ x_col' = None
    /\ y_col' = None
    /\ rows' = 0
    /\ LET tr2 == Append(tr, Msg("Configuration updated"))
       IN  IF IsEmptyBag(cfg)
           THEN NoConfiguration(tr2)
           ELSE /\ pc' = "render"
                /\ i' = IF mode = "shared" THEN 1 ELSE i
                /\ status' = status
                /\ trace' = tr2

\* (variant: prompt_configuration without its except KeyboardInterrupt)
CancelConfig_uncaught(tr) ==
    /\ UNCHANGED <<viz_handler, config, x_col, y_col, rows>>
    /\ Propagate(Exc("KeyboardInterrupt", ""), tr)

\* prompt_configuration: except KeyboardInterrupt: return {}
CancelConfig(tr) ==
    /\ viz_handler' = viz_handler
    /\ config' = EmptyBag
    /\ x_col' = None
    /\ y_col' = None
    /\ rows' = 0
    /\ NoConfiguration(Append(tr, Msg("Exiting configuration...")))

\* (variant: prompt_configuration(HISTOGRAM) returning a bag that is not empty)
HistogramConfig_filled == [title |-> HISTOGRAM]

\* (variant: the commented-out default of the bins prompt taken)
HistogramConfig_with_bins == [bins |-> 30]

\* prompt_configuration(HISTOGRAM): the prompts are commented out, config = {}
HistogramConfig == EmptyBag

\* prompt_configuration(HISTOGRAM): no prompt, the empty dict
configure_histogram ==
    /\ pc = "prompt_configuration"
    /\ viz_type = HISTOGRAM
    /\ ReturnConfig(HistogramConfig, trace)
    /\ UNCHANGED <<backend, config_path, selected_files, file_paths,
                   mode, file_handlers, all_data, viz_type,
                   common_columns, selected>>

\* prompt_configuration(TABLE): "Number of rows to display:"
prompt_rows ==
    /\ pc = "prompt_configuration"
    /\ viz_type = TABLE
    /\ \E answer \in RowChoices \cup {Quit} :
         LET tr == Append(trace, <<"prompt", "rows">>)
         IN  IF answer = Quit
             THEN CancelConfig(Interrupt(tr))
             ELSE /\ rows' = int(answer)
                  /\ pc' = "table_title"
                  /\ trace' = tr
                  /\ UNCHANGED <<status, i, viz_handler, config, x_col, y_col>>
    /\ UNCHANGED <<backend, config_path, selected_files, file_paths,
                   mode, file_handlers, all_data, viz_type,
                   common_columns, selected>>

\* prompt_configuration(TABLE): "Table title:"
prompt_table_title ==
    /\ pc = "table_title"
    /\ \E answer \in TableTitles \cup {Quit} :
         LET tr == Append(trace, <<"prompt", "title">>)
         IN  IF answer = Quit
             THEN CancelConfig(Interrupt(tr))
             ELSE ReturnConfig([rows |-> rows, title |-> answer], tr)
    /\ UNCHANGED <<backend, config_path, selected_files, file_paths,
                   mode, file_handlers, all_data, viz_type,
                   common_columns, selected>>

\* prompt_configuration(LINE_CHART / BAR_CHART): "Select X-axis column:";
\* default=columns[0] raises IndexError on a frame without columns, which
\* the method's "except KeyboardInterrupt" does not catch
prompt_x_axis ==
    /\ pc = "prompt_configuration"
    /\ viz_type \in {LINE_CHART, BAR_CHART}
    /\ LET columns == get_column_names(viz_handler.file)
       IN  IF columns = << >>
           THEN /\ Propagate(Exc("IndexError", "list index out of range"), trace)
                /\ UNCHANGED <<viz_handler, config, x_col, y_col, rows>>
           ELSE \E answer \in Range(columns) \cup {Quit} :
                  LET tr == Append(trace, <<"prompt", "x_axis", Range(columns)>>)
                  IN  IF answer = Quit
                      THEN CancelConfig(Interrupt(tr))
                      ELSE /\ x_col' = answer
                           /\ pc' = "y_axis"
                           /\ trace' = tr
                           /\ UNCHANGED <<status, i, viz_handler, config, y_col, rows>>
    /\ UNCHANGED <<backend, config_path, selected_files, file_paths,
                   mode, file_handlers, all_data, viz_type,
                   common_columns, selected>>

\* prompt_configuration(LINE_CHART / BAR_CHART): "Select Y-axis column:"
prompt_y_axis ==
    /\ pc = "y_axis"
    /\ \E answer \in Range(get_column_names(viz_handler.file)) \cup {Quit} :
         LET tr == Append(trace, <<"prompt", "y_axis",
                                   Range(get_column_names(viz_handler.file))>>)
         IN  IF answer = Quit
             THEN CancelConfig(Interrupt(tr))
             ELSE /\ y_col' = answer
                  /\ pc' = "title"
                  /\ trace' = tr
                  /\ UNCHANGED <<status, i, viz_handler, config, x_col, rows>>
    /\ UNCHANGED <<backend, config_path, selected_files, file_paths,
                   mode, file_handlers, all_data, viz_type,
                   common_columns, selected>>

\* prompt_configuration(LINE_CHART / BAR_CHART): "Chart title:"
prompt_title ==
    /\ pc = "title"
    /\ \E answer \in ChartTitles(viz_type) \cup {Quit} :
         LET tr == Append(trace, <<"prompt", "title">>)
         IN  IF answer = Quit
             THEN CancelConfig(Interrupt(tr))
             ELSE ReturnConfig([x_axis |-> x_col, y_axis |-> y_col, title |-> answer], tr)
    /\ UNCHANGED <<backend, config_path, selected_files, file_paths,
                   mode, file_handlers, all_data, viz_type,
                   common_columns, selected>>

----------------------------------------------------------------------------
(* The single-dataset session: interactive_visualization *)

\* (variant: create_visualization without its try/except)
session_render_uncaught ==
    /\ pc = "render"
    /\ Session
    /\ LET r == StrategyCall(viz_handler.strategy, viz_handler.file, viz_handler.config)
       IN  IF r.exc # None
           THEN Propagate(r, Append(trace, Render(viz_handler)))
           ELSE /\ trace' = trace \o create_visualization(viz_handler)
                /\ pc' = "another"
                /\ UNCHANGED <<status, i>>
    /\ UNCHANGED <<backend, config_path, selected_files, file_paths, mode,
                   file_handlers, all_data, viz_handler, viz_type, config, x_col,
                   y_col, rows, common_columns, selected>>

\* interactive_visualization: self.create_visualization()
session_render ==
    /\ pc = "render"
    /\ Session
    /\ trace' = trace \o create_visualization(viz_handler)
    /\ pc' = "another"
    /\ UNCHANGED <<backend, config_path, selected_files, file_paths,
                   mode, status, i, file_handlers, all_data, viz_handler,
                   viz_type, config, x_col, y_col, rows, common_columns, selected>>

\* (variant: "if not another: break" left out, the loop going on after "no")
prompt_another_ignoring_no ==
    /\ pc = "another"
    /\ \E answer \in {"yes", "no", Quit} :
         LET tr == Append(trace, <<"prompt", "another", answer>>)
         IN  CASE answer = "yes" ->
                    /\ pc' = "type"
                    /\ trace' = tr
                    /\ UNCHANGED <<status, i>>
               [] answer = "no" ->
                    /\ pc' = "type"
                    /\ trace' = tr
                    /\ UNCHANGED <<status, i>>
               [] answer = Quit ->
                    SessionReturn(Append(Interrupt(tr), Msg("Exiting visualization...")))
    /\ UNCHANGED <<backend, config_path, selected_files, file_paths,
                   mode, file_handlers, all_data, viz_handler,
                   viz_type, config, x_col, y_col, rows, common_columns, selected>>

\* interactive_visualization: "Create another visualization for this file?"
prompt_another ==
    /\ pc = "another"
    /\ \E answer \in {"yes", "no", Quit} :
         LET tr == Append(trace, <<"prompt", "another", answer>>)
         IN  CASE answer = "yes" ->
                    /\ pc' = "type"
                    /\ trace' = tr
                    /\ UNCHANGED <<status, i>>
               [] answer = "no" -> SessionReturn(tr)
               [] answer = Quit ->
                    SessionReturn(Append(Interrupt(tr), Msg("Exiting visualization...")))
    /\ UNCHANGED <<backend, config_path, selected_files, file_paths,
                   mode, file_handlers, all_data, viz_handler,
                   viz_type, config, x_col, y_col, rows, common_columns, selected>>

----------------------------------------------------------------------------
(* Shared mode: _run_same_visualization_for_all *)

\* one iteration of the loading loop and, after the last one, the lines up
\* to the chart-type prompt
shared_load ==
    /\ pc = "load"
    /\ mode = "shared"
    /\ LET f == file_paths[i]
           r == LoadFile(f)
           fhs == IF r.exc = None THEN Append(file_handlers, f) ELSE file_handlers
           tr == IF r.exc = None
                 THEN trace \o << <<"load", f>>, <<"msg", "Loaded", f>> >>
                 ELSE Append(trace, <<"msg", "Failed to load", f>>)
       IN  IF r.exc # None /\ ~ExceptException(r.exc)
           THEN /\ Uncaught(r, trace)
                /\ UNCHANGED <<file_handlers, viz_handler>>
           ELSE /\ file_handlers' = fhs
                /\ IF i < Len(file_paths)
                   THEN /\ i' = i + 1
                        /\ trace' = tr
                        /\ UNCHANGED <<pc, status, viz_handler>>
                   ELSE IF fhs = << >>
                   THEN /\ WorkflowReturn(Append(tr, Msg("No files loaded successfully")))
                        /\ viz_handler' = viz_handler
                   ELSE /\ viz_handler' = NewHandler(fhs[1])
                        /\ pc' = "type"
                        /\ trace' = tr
                        /\ UNCHANGED <<status, i>>
    /\ UNCHANGED <<backend, config_path, selected_files, file_paths,
                   mode, all_data, viz_type, config, x_col, y_col, rows,
                   common_columns, selected>>

\* (variant: the copy of the shared config left out)
TempHandler_without_config(f, t, cfg) == set_strategy(NewHandler(f), t)

\* temp_viz_handler = VisualizationHandler(fh); set_strategy; config = config.copy()
TempHandler(f, t, cfg) == [set_strategy(NewHandler(f), t) EXCEPT !.config = cfg]

\* one iteration of the rendering loop over file_handlers
shared_render ==
    /\ pc = "render"
    /\ mode = "shared"
    /\ LET f == file_handlers[i]
           tr == trace \o set_strategy_out(viz_type)
                       \o create_visualization(TempHandler(f, viz_type, config))
       IN  IF i < Len(file_handlers)
           THEN /\ i' = i + 1
                /\ trace' = tr
                /\ UNCHANGED <<pc, status>>
           ELSE WorkflowReturn(tr)
    /\ UNCHANGED <<backend, config_path, selected_files, file_paths,
                   mode, file_handlers, all_data, viz_handler, viz_type,
                   config, x_col, y_col, rows, common_columns, selected>>

----------------------------------------------------------------------------
(* Comparison mode: _run_comparison *)

\* the order sorted() puts the column names in
ColumnOrder == <<"p", "w", "x", "y", "z">>

sorted(S) == SelectSeq(ColumnOrder, LAMBDA c : c \in S)

\* common_columns = set(all_data[0].columns); for item in all_data[1:]: &=
RECURSIVE Intersect(_, _, _)
Intersect(data, k, acc) ==
    IF k > Len(data) THEN acc
    ELSE Intersect(data, k + 1, acc \cap Range(Columns(data[k])))

\* (variant: the loop of &= left out)
CommonColumns_of_first(data) == Range(Columns(data[1]))

CommonColumns(data) == Intersect(data, 2, Range(Columns(data[1])))

\* (variant: the guard written as len(all_data) < 1)
TooFewToCompare_one_suffices(data) == Len(data) < 1

\* if len(all_data) < 2
TooFewToCompare(data) == Len(data) < 2

\* one iteration of the loading loop and, after the last one, the lines up
\* to the chart-type prompt
comparison_load ==
    /\ pc = "load"
    /\ mode = "comparison"
    /\ LET f == file_paths[i]
           r == LoadFile(f)
           data == IF r.exc = None THEN Append(all_data, f) ELSE all_data
           tr == IF r.exc = None
                 THEN trace \o << <<"load", f>>, <<"msg", "Loaded", f>> >>
                 ELSE Append(trace, <<"msg", "Failed", f>>)
       IN  IF r.exc # None /\ ~ExceptException(r.exc)
           THEN /\ Uncaught(r, trace)
                /\ UNCHANGED <<all_data, common_columns>>
           ELSE /\ all_data' = data
                /\ IF i < Len(file_paths)
                   THEN /\ i' = i + 1
                        /\ trace' = tr
                        /\ UNCHANGED <<pc, status, common_columns>>
                   ELSE IF TooFewToCompare(data)
                   THEN /\ WorkflowReturn(
                             Append(tr, Msg("Need at least 2 files for comparison")))
                        /\ common_columns' = common_columns
                   ELSE IF CommonColumns(data) = {}
                   THEN /\ WorkflowReturn(
                             Append(tr, Msg("No common columns found across all files")))
                        /\ common_columns' = common_columns
                   ELSE /\ common_columns' = sorted(CommonColumns(data))
                        /\ pc' = "comparison_type"
                        /\ trace' = tr
                        /\ UNCHANGED <<status, i>>
    /\ UNCHANGED <<backend, config_path, selected_files, file_paths,
                   mode, file_handlers, viz_handler, viz_type, config,
                   x_col, y_col, rows, selected>>

\* "Select comparison chart type:", outside any try
comparison_type ==
    /\ pc = "comparison_type"
    /\ \E answer \in {LINE_CHART, BAR_CHART, Quit} :
         LET tr == Append(trace, <<"prompt", "comparison_type">>)
         IN  IF answer = Quit
             THEN /\ Uncaught(Exc("KeyboardInterrupt", ""), Interrupt(tr))
                  /\ selected' = selected
             ELSE /\ selected' = answer
                  /\ pc' = "comparison_x"
                  /\ trace' = tr
                  /\ UNCHANGED <<status, i>>
    /\ UNCHANGED <<backend, config_path, selected_files, file_paths,
                   mode, file_handlers, all_data, viz_handler, viz_type,
                   config, x_col, y_col, rows, common_columns>>

\* "X-axis:", choices=common_columns, outside any try
comparison_x ==
    /\ pc = "comparison_x"
    /\ \E answer \in Range(common_columns) \cup {Quit} :
         LET tr == Append(trace, <<"prompt", "comparison_x", Range(common_columns)>>)
         IN  IF answer = Quit
             THEN /\ Uncaught(Exc("KeyboardInterrupt", ""), Interrupt(tr))
                  /\ x_col' = x_col
             ELSE /\ x_col' = answer
                  /\ pc' = "comparison_y"
                  /\ trace' = tr
                  /\ UNCHANGED <<status, i>>
    /\ UNCHANGED <<backend, config_path, selected_files, file_paths,
                   mode, file_handlers, all_data, viz_handler, viz_type,
                   config, y_col, rows, common_columns, selected>>

\* "Y-axis to compare:", choices=common_columns, outside any try
comparison_y ==
    /\ pc = "comparison_y"
    /\ \E answer \in Range(common_columns) \cup {Quit} :
         LET tr == Append(trace, <<"prompt", "comparison_y", Range(common_columns)>>)
         IN  IF answer = Quit
             THEN /\ Uncaught(Exc("KeyboardInterrupt", ""), Interrupt(tr))
                  /\ y_col' = y_col
             ELSE /\ y_col' = answer
                  /\ pc' = "comparison_draw"
                  /\ trace' = tr
                  /\ UNCHANGED <<status, i>>
    /\ UNCHANGED <<backend, config_path, selected_files, file_paths,
                   mode, file_handlers, all_data, viz_handler, viz_type,
                   config, x_col, rows, common_columns, selected>>

\* (variant: the Bar branch drawing a series as the Line branch does)
Series_with_bars(data, sel, x, y) ==
    SelectSeq(data, LAMBDA f : x \in Range(Columns(f)) /\ y \in Range(Columns(f)))

\* for item in all_data: plt.plot(..., label=item["name"]) for a Line chart,
\* nothing for a Bar chart
Series(data, sel, x, y) ==
    SelectSeq(data, LAMBDA f : /\ x \in Range(Columns(f))
                               /\ y \in Range(Columns(f))
                               /\ sel = LINE_CHART)

\* the figure: the series, the labels, plt.show() or plt.savefig()
comparison_draw ==
    /\ pc = "comparison_draw"
    /\ WorkflowReturn(trace \o
         << <<"figure", [type |-> selected, x |-> x_col, y |-> y_col,
                         series |-> Series(all_data, selected, x_col, y_col),
                         out |-> Output(backend)]>>,
            Msg("Comparison chart created!") >>)
    /\ UNCHANGED <<backend, config_path, selected_files, file_paths,
                   mode, file_handlers, all_data, viz_handler, viz_type,
                   config, x_col, y_col, rows, common_columns, selected>>

----------------------------------------------------------------------------
(* The program *)

\* Independent mode is explored on the batches of files with few columns
IndependentFiles == {"c.txt", "e.json", "gone.csv"}

\* the answers at the mode prompt
choose_shared == ModePrompt("shared")

choose_independent ==
    /\ Range(file_paths) \subseteq IndependentFiles
    /\ ModePrompt("independent")

choose_comparison == ModePrompt("comparison")

quit_mode_prompt == ModePrompt(Quit)

\* the steps of VisualizationHandler that the session and Shared mode share
HandlerPrompts ==
    \/ prompt_visualization_type
    \/ SetStrategy
    \/ configure_histogram
    \/ prompt_rows
    \/ prompt_table_title
    \/ prompt_x_axis
    \/ prompt_y_axis
    \/ prompt_title

SessionSteps ==
    \/ setup_file
    \/ session_render
    \/ prompt_another

SharedSteps ==
    \/ shared_load
    \/ shared_render

ComparisonSteps ==
    \/ comparison_load
    \/ comparison_type
    \/ comparison_x
    \/ comparison_y
    \/ comparison_draw

Next ==
    \/ run
    \/ choose_shared
    \/ choose_independent
    \/ choose_comparison
    \/ quit_mode_prompt
    \/ HandlerPrompts
    \/ SessionSteps
    \/ SharedSteps
    \/ ComparisonSteps

Spec == Init /\ [][Next]_vars

----------------------------------------------------------------------------
(* The workflows one at a time: the same steps, with one entry *)

\* VisualizationWorkflow.run on one file: the single-dataset session
SpecSession == Init /\ [][run \/ SessionSteps \/ HandlerPrompts]_vars

\* one file, or several files under "Same visualization for all files"
SpecSingleOrShared ==
    Init /\ [][run \/ choose_shared \/ SessionSteps \/ SharedSteps \/ HandlerPrompts]_vars

\* the same where no interactive backend is in use and figures are saved
SpecFileOutput ==
    InitFileOutput
        /\ [][run \/ choose_shared \/ SessionSteps \/ SharedSteps \/ HandlerPrompts]_vars

\* "Same visualization for all files"
SpecShared == Init /\ [][choose_shared \/ SharedSteps \/ HandlerPrompts]_vars

\* "Different visualization for each file"
SpecIndependent == Init /\ [][choose_independent \/ SessionSteps \/ HandlerPrompts]_vars

\* "Compare files side-by-side"
SpecComparison == Init /\ [][choose_comparison \/ ComparisonSteps]_vars

----------------------------------------------------------------------------
(* The program as started from main.py: the import of visualize.py, which  *)
(* selects the matplotlib backend, then CLIConfig, CLI.run and the         *)
(* workflow on the files the CLI found valid.  A file of a directory is    *)
(* identified by its name: the directories of the model hold distinct      *)
(* names, so os.path.join(config.path, name) is written name.              *)

\* the interactive backends, in the order the import tries them
GuiBackends == <<"TkAgg", "Qt5Agg", "GTK3Agg">>

\* the paths CLIConfig may be given
ConfigPaths == {"./nowhere", "./empty", "./pq", "./data", "./notes.txt"}

\* os.path.exists(self.path)
PathExists(p) == p # "./nowhere"

\* os.listdir(self.config.path); a path that is a file raises NotADirectoryError
listdir(p) ==
    CASE p = "./data" -> <<"a.csv", "b.csv", "bad.json", "c.txt", "d.parquet", "dir", "e.json">>
      [] p = "./pq" -> <<"d.parquet">>
      [] p = "./empty" -> <<"dir">>
      [] OTHER -> << >>

\* (variant: get_files returning the empty list instead of exiting)
get_files_allowing_empty(p) ==
    IF p = "./notes.txt"
    THEN [files |-> << >>, exc |-> "SystemExit", msg |-> "Error reading directory"]
    ELSE [files |-> SelectSeq(listdir(p), LAMBDA n : Kind(n) = "file"),
          exc |-> None, msg |-> ""]

\* CLI.get_files: the regular files of the directory, or the sys.exit it ends in
get_files(p) ==
    IF p = "./notes.txt"
    THEN [files |-> << >>, exc |-> "SystemExit", msg |-> "Error reading directory"]
    ELSE LET files_list == SelectSeq(listdir(p), LAMBDA n : Kind(n) = "file")
         IN  IF Len(files_list) = 0
             THEN [files |-> << >>, exc |-> "SystemExit",
                   msg |-> "An error occur: folder does not include any file"]
             ELSE [files |-> files_list, exc |-> None, msg |-> ""]

\* what the checkbox can return: the ticked choices in the order of the
\* list, at least one (validate), MaxFiles at most
Selections(choices) ==
    {SelectSeq(choices, LAMBDA n : n \in S) :
        S \in {T \in SUBSET Range(choices) : Cardinality(T) \in 1..MaxFiles}}

\* the first backend of the fallback chain that matplotlib.use accepts
RECURSIVE FirstAvailable(_, _)
FirstAvailable(k, avail) ==
    IF k > Len(GuiBackends) THEN "Agg"
    ELSE IF GuiBackends[k] \in avail THEN GuiBackends[k]
    ELSE FirstAvailable(k + 1, avail)

InitCLI ==
    /\ backend = None
    /\ config_path \in ConfigPaths
    /\ selected_files = << >>
    /\ file_paths = << >>
    /\ mode = None
    /\ pc = "import"
    /\ status = "running"
    /\ i = 0
    /\ file_handlers = << >>
    /\ all_data = << >>
    /\ viz_handler = NoHandler
    /\ viz_type = None
    /\ config = EmptyBag
    /\ x_col = None
    /\ y_col = None
    /\ rows = 0
    /\ common_columns = << >>
    /\ selected = None
    /\ trace = << >>

\* visualize.py, module level: matplotlib.use(...) down the fallback chain;
\* with no interactive backend: the warning, matplotlib.use("Agg"), sys.exit()
import_visualize ==
    /\ pc = "import"
    /\ \E avail \in SUBSET Range(GuiBackends) :
         /\ backend' = FirstAvailable(1, avail)
         /\ IF FirstAvailable(1, avail) = "Agg"
            THEN Uncaught(Exc("SystemExit", ""),
                          Append(trace,
                                 Msg("Warning: No GUI backend found. Using default backend.")))
            ELSE /\ pc' = "cli_config"
                 /\ UNCHANGED <<status, i, trace>>
    /\ UNCHANGED <<config_path, selected_files, file_paths, mode, file_handlers,
                   all_data, viz_handler, viz_type, config, x_col, y_col, rows,
                   common_columns, selected>>

\* main.py: CLIConfig(path=data_path), whose __post_init__ checks the path;
\* then CLI(cli_config) and cli.run() up to its banner
cli_config ==
    /\ pc = "cli_config"
    /\ IF ~PathExists(config_path)
       THEN Uncaught(Exc("SystemExit", "An Error occur: path does not exist"), trace)
       ELSE /\ pc' = "files_prompt"
            /\ trace' = Append(trace, Msg("Scanning directory"))
            /\ UNCHANGED <<status, i>>
    /\ UNCHANGED <<backend, config_path, selected_files, file_paths, mode,
                   file_handlers, all_data, viz_handler, viz_type, config, x_col,
                   y_col, rows, common_columns, selected>>

\* CLI.create_files_prompt: the choices from get_files, then the checkbox
create_files_prompt ==
    /\ pc = "files_prompt"
    /\ LET g == get_files(config_path)
           tr == Append(trace, <<"prompt", "files", Range(g.files)>>)
       IN  IF g.exc # None
           THEN /\ Uncaught(Exc(g.exc, g.msg), trace)
                /\ selected_files' = selected_files
           ELSE \/ /\ Uncaught(Exc("SystemExit", "User Exit"), Interrupt(tr))
                   /\ selected_files' = selected_files
                \/ \E answer \in Selections(g.files) :
                     /\ selected_files' = answer
                     /\ pc' = "visualize_files"
                     /\ trace' = Append(tr, <<"msg", "Selected", answer>>)
                     /\ UNCHANGED <<status, i>>
    /\ UNCHANGED <<backend, config_path, file_paths, mode, file_handlers, all_data,
                   viz_handler, viz_type, config, x_col, y_col, rows,
                   common_columns, selected>>

\* CLI.visualize_files: the "Skipping ..." lines of the validation loop
Skipped(names) ==
    LET bad == SelectSeq(names, LAMBDA n : ~validate_suffix(n))
    IN  [k \in 1..Len(bad) |-> <<"msg", "Skipping", bad[k], "CLIError.FileIsNotValid">>]

\* (variant: the validate_suffix test left out)
ValidFiles_unfiltered(names) == names

\* CLI.visualize_files: valid_files
ValidFiles(names) == SelectSeq(names, LAMBDA n : validate_suffix(n))

\* CLI.visualize_files, up to the call of run_with_shared_config
visualize_files ==
    /\ pc = "visualize_files"
    /\ LET valid_files == ValidFiles(selected_files)
           tr == trace \o Skipped(selected_files)
       IN  IF \E k \in DOMAIN selected_files : PostInit(selected_files[k]).exc # None
           THEN /\ Uncaught(PostInit(selected_files[
                        CHOOSE k \in DOMAIN selected_files :
                            PostInit(selected_files[k]).exc # None]), trace)
                /\ file_paths' = file_paths
           ELSE IF valid_files = << >>
           THEN /\ Uncaught(Exc("SystemExit",
                                "Folder do not include valid file types for visualize"), tr)
                /\ file_paths' = file_paths
           ELSE /\ file_paths' = valid_files
                /\ pc' = "start"
                /\ trace' = Append(tr, <<"msg", "valid file(s) ready", Len(valid_files)>>)
                /\ UNCHANGED <<status, i>>
    /\ UNCHANGED <<backend, config_path, selected_files, mode, file_handlers,
                   all_data, viz_handler, viz_type, config, x_col, y_col, rows,
                   common_columns, selected>>

CLISteps ==
    \/ import_visualize
    \/ cli_config
    \/ create_files_prompt
    \/ visualize_files

NextCLI ==
    \/ CLISteps
    \/ choose_shared
    \/ choose_independent
    \/ choose_comparison
    \/ quit_mode_prompt
    \/ HandlerPrompts
    \/ SessionSteps
    \/ SharedSteps
    \/ ComparisonSteps

\* python visualize/main.py
SpecCLI == InitCLI /\ [][NextCLI]_vars

\* the CLI up to the workflow, and VisualizationWorkflow.run on one file
SpecSingleOrCLI ==
    (Init \/ InitCLI) /\ [][CLISteps \/ run \/ SessionSteps \/ HandlerPrompts]_vars

----------------------------------------------------------------------------
(* VisualizationHandler as an object: a handler on a loaded file, its      *)
(* public methods called in any order, MaxCalls calls at most.             *)

LoadableFiles == {f \in Files : Kind(f) = "file" /\ validate_suffix(f) /\ Parses(f)}

\* the keyword arguments tried with configure
Kwargs(f) ==
    {[x_axis |-> x, y_axis |-> "y", title |-> LINE_CHART] : x \in Range(Columns(f)) \cup {"x"}}
        \cup {[rows |-> 3, title |-> "Data Table"]}

InitHandler ==
    /\ backend = "TkAgg"
    /\ config_path = None
    /\ selected_files = << >>
    /\ \E f \in LoadableFiles :
         /\ file_paths = <<f>>
         /\ viz_handler = NewHandler(f)
    /\ mode = "handler"
    /\ pc = "handler"
    /\ status = "running"
    /\ i = 0
    /\ file_handlers = << >>
    /\ all_data = << >>
    /\ viz_type = None
    /\ config = EmptyBag
    /\ x_col = None
    /\ y_col = None
    /\ rows = 0
    /\ common_columns = << >>
    /\ selected = None
    /\ trace = << >>

Call ==
    /\ pc = "handler"
    /\ i < MaxCalls
    /\ i' = i + 1
    /\ UNCHANGED <<backend, config_path, selected_files, file_paths,
                   mode, pc, status, file_handlers, all_data, viz_type,
                   config, x_col, y_col, rows, common_columns, selected>>

call_set_strategy ==
    /\ Call
    /\ \E t \in Range(VisualizationType) :
         /\ viz_handler' = set_strategy(viz_handler, t)
         /\ trace' = trace \o set_strategy_out(t)

call_configure ==
    /\ Call
    /\ \E kwargs \in Kwargs(viz_handler.file) :
         /\ viz_handler' = configure(viz_handler, kwargs)
         /\ trace' = Append(trace, Msg("Configuration updated"))

call_create_visualization ==
    /\ Call
    /\ viz_handler' = viz_handler
    /\ trace' = trace \o create_visualization(viz_handler)

SpecHandler ==
    InitHandler /\ [][call_set_strategy \/ call_configure \/ call_create_visualization]_vars

----------------------------------------------------------------------------
(* Properties *)

Has(e) == \E k \in DOMAIN trace : trace[k] = e

Kinds(k) == trace[k][1]

\* a file the loader can read: it exists, is a regular file with a supported
\* extension, and its content parses
Loadable(f) ==
    /\ Kind(f) = "file"
    /\ Extension(f) \in FileExtension
    /\ Parses(f)

\* the user pressed the quit keystroke
IsCancel(e) == e = <<"quit", Quit>>

\* C1: in Shared and Comparison modes, in a batch that holds a loadable file,
\* a file whose load fails is reported and skipped, every other file of the
\* batch is still loaded, and the process is not terminated by the failure.
C1_LoadFailureSkipsFile ==
    (/\ mode \in {"shared", "comparison"}
     /\ pc = "done"
     /\ \E k \in DOMAIN file_paths : Loadable(file_paths[k])) =>
        /\ status # "exited"
        /\ \A k \in DOMAIN file_paths :
             IF Loadable(file_paths[k])
             THEN Has(<<"load", file_paths[k]>>)
             ELSE \/ Has(<<"msg", "Failed to load", file_paths[k]>>)
                  \/ Has(<<"msg", "Failed", file_paths[k]>>)

\* C2: in Independent mode, on a batch that holds a loadable file and unless
\* the user pressed the quit keystroke, the run ends normally with every file
\* of the batch attempted: each one was loaded or its failure was caught and
\* reported.
C2_EveryFileAttempted ==
    (/\ mode = "independent"
     /\ pc = "done"
     /\ \E k \in DOMAIN file_paths : Loadable(file_paths[k])
     /\ \A k \in DOMAIN trace : ~IsCancel(trace[k])) =>
        /\ status = "returned"
        /\ \A k \in DOMAIN file_paths :
             \/ Has(<<"load", file_paths[k]>>)
             \/ Has(<<"msg", "Error processing", file_paths[k]>>)

\* C3: in Independent mode, once the user pressed the quit keystroke at a
\* prompt of one file's session, no further file is loaded and no further
\* prompt is shown.
C3_QuitAbortsBatch ==
    mode = "independent" =>
        \A j, k \in DOMAIN trace :
            (j < k /\ IsCancel(trace[j])) => Kinds(k) \notin {"load", "prompt"}

\* C4: after Histogram is chosen at the chart-type prompt the strategy is
\* unset, the next thing printed is "not implemented yet", and until the next
\* chart-type prompt or the next file no strategy is called, no configuration
\* prompt is shown and no exception goes uncaught.
C4_HistogramNotImplemented ==
    /\ (viz_type = HISTOGRAM /\ pc # "set_strategy") => viz_handler.strategy = None
    /\ \A k \in DOMAIN trace :
         trace[k] = <<"prompt", "type", HISTOGRAM>> =>
            /\ k < Len(trace) => trace[k + 1] = Msg("not implemented yet")
            /\ \A n \in (k + 1)..Len(trace) :
                 (\A m \in (k + 1)..n : Kinds(m) \notin {"load"}
                                        /\ ~(Kinds(m) = "prompt" /\ trace[m][2] = "type"))
                    => /\ Kinds(n) \notin {"render", "uncaught", "figure"}
                       /\ Kinds(n) = "prompt" => trace[n][2] = "another"

C4_Witness ==
    /\ mode = "shared"
    /\ status = "returned"
    /\ Has(<<"prompt", "type", HISTOGRAM>>)
    /\ Has(Msg("not implemented yet"))


\* C5 as stated: the strategy is called only with a strategy set and a
\* non-empty parameter bag.
C5_RenderNeedsStrategyAndBag ==
    \A k \in DOMAIN trace :
        Kinds(k) = "render" =>
            /\ trace[k][2].type # None
            /\ ~IsEmptyBag(trace[k][2].config)

\* C5 amended: create_visualization on a handler whose file is loaded calls
\* the strategy exactly when a strategy is set, whatever the parameter bag
\* holds; with the strategy unset it only prints "No visualization strategy
\* set".
C5_RenderNeedsStrategyOnly ==
    [][call_create_visualization =>
         IF viz_handler.strategy = None
         THEN trace' = Append(trace, Msg("No visualization strategy set"))
         ELSE /\ NumRenders(trace') = NumRenders(trace) + 1
              /\ trace'[Len(trace) + 1] = Render(viz_handler)]_vars

C5_Witness ==
    /\ pc = "handler"
    /\ \E k \in DOMAIN trace :
         /\ Kinds(k) = "render"
         /\ IsEmptyBag(trace[k][2].config)
         /\ trace[k][2].type = TABLE
         /\ trace[k][2].ok

\* the strategy calls and the loads of the run, in the order they happened
Renders == SelectSeq(trace, LAMBDA e : e[1] = "render")

Loads == SelectSeq(trace, LAMBDA e : e[1] = "load")

\* how many times the prompt of that name was shown
Shown(name) ==
    Cardinality({k \in DOMAIN trace : Kinds(k) = "prompt" /\ trace[k][2] = name})

\* C6: in Shared mode no file is loaded after a prompt of the handler; the
\* chart type and each configuration question are asked at most once, the
\* axis questions offering the columns of the first loaded dataset; the
\* strategy calls made so far are on the loaded datasets in load order, each
\* with the chosen type and the prompted parameter bag; and when the run
\* returns with a configuration there is exactly one call per loaded dataset,
\* after exactly one chart-type prompt and one title prompt.
C6_SharedOneConfigurationForAll ==
    mode = "shared" =>
        /\ \A j, k \in DOMAIN trace :
              (j < k /\ Kinds(j) = "prompt" /\ trace[j][2] # "mode") => Kinds(k) # "load"
        /\ \A name \in {"type", "rows", "x_axis", "y_axis", "title"} : Shown(name) <= 1
        /\ \A k \in DOMAIN trace :
              (Kinds(k) = "prompt" /\ trace[k][2] \in {"x_axis", "y_axis"}) =>
                  trace[k][3] = Range(Columns(Loads[1][2]))
        /\ Len(Renders) <= Len(Loads)
        /\ \A k \in DOMAIN Renders :
              /\ Renders[k][2].file = Loads[k][2]
              /\ Renders[k][2].type = viz_type
              /\ Has(<<"prompt", "type", viz_type>>)
              /\ Renders[k][2].config = config
        /\ (pc = "done" /\ status = "returned" /\ ~IsEmptyBag(config)) =>
              /\ Len(Renders) = Len(Loads)
              /\ Shown("type") = 1
              /\ Shown("title") = 1

C6_Witness ==
    /\ mode = "shared"
    /\ status = "returned"
    /\ Len(Loads) = 3
    /\ Len(Renders) = 3
    /\ viz_type = LINE_CHART
    /\ config = [x_axis |-> "x", y_axis |-> "y", title |-> "Q1 sales"]

\* the dataset has both axis columns the shared parameter bag names
HasAxes(f) ==
    /\ Get(config, "x_axis") \in Range(Columns(f))
    /\ Get(config, "y_axis") \in Range(Columns(f))

\* C7: in a finished Shared run of a Line or Bar chart, if exactly the loaded
\* dataset D lacks an axis column of the shared parameter bag, the strategy
\* was still called once per loaded dataset, the call on D failed and was
\* followed at once by "Error creating visualization", and the call on every
\* other dataset, before and after D, succeeded.
C7_MissingColumnFailsThatRenderOnly ==
    (/\ mode = "shared"
     /\ pc = "done"
     /\ status = "returned"
     /\ viz_type \in {LINE_CHART, BAR_CHART}
     /\ ~IsEmptyBag(config)) =>
        \A d \in DOMAIN file_handlers :
            (/\ ~HasAxes(file_handlers[d])
             /\ \A o \in DOMAIN file_handlers \ {d} : HasAxes(file_handlers[o])) =>
                /\ Len(Renders) = Len(file_handlers)
                /\ ~Renders[d][2].ok
                /\ \E k \in DOMAIN trace :
                      /\ trace[k] = Renders[d]
                      /\ k < Len(trace)
                      /\ trace[k + 1] = Msg("Error creating visualization")
                /\ \A o \in DOMAIN file_handlers \ {d} :
                      /\ Renders[o][2].file = file_handlers[o]
                      /\ Renders[o][2].ok

C7_Witness ==
    /\ mode = "shared"
    /\ status = "returned"
    /\ file_handlers = <<"a.csv", "c.txt", "b.csv">>
    /\ Len(Renders) = 3
    /\ Renders[1][2].ok
    /\ ~Renders[2][2].ok
    /\ Renders[3][2].ok
    /\ Has(Msg("Error creating visualization"))

\* the columns every loaded dataset of the comparison has
InEveryDataset ==
    {c \in Range(ColumnOrder) :
        \A k \in DOMAIN all_data : c \in Range(Columns(all_data[k]))}

\* C8: in Comparison mode the X-axis and the Y-axis prompts offer exactly the
\* columns that every loaded dataset has, and the chosen x and y, also those
\* of the figure drawn, are among them.
C8_OfferedColumnsAreTheIntersection ==
    mode = "comparison" =>
        /\ \A k \in DOMAIN trace :
              (Kinds(k) = "prompt" /\ trace[k][2] \in {"comparison_x", "comparison_y"}) =>
                  trace[k][3] = InEveryDataset
        /\ x_col # None => x_col \in InEveryDataset
        /\ y_col # None => y_col \in InEveryDataset
        /\ \A k \in DOMAIN trace :
              Kinds(k) = "figure" =>
                  /\ trace[k][2].x \in InEveryDataset
                  /\ trace[k][2].y \in InEveryDataset

C8_Witness ==
    /\ mode = "comparison"
    /\ status = "returned"
    /\ all_data = <<"a.csv", "b.csv">>
    /\ Has(<<"prompt", "comparison_x", {"x", "y"}>>)
    /\ Has(<<"prompt", "comparison_y", {"x", "y"}>>)
    /\ x_col = "x"
    /\ y_col = "y"

\* a prompt of the comparison, or its figure, is in the history
ComparisonActed ==
    \E k \in DOMAIN trace :
        \/ Kinds(k) = "figure"
        \/ Kinds(k) = "prompt" /\ trace[k][2] # "mode"

\* C9: in Comparison mode a prompt is shown or a figure drawn only with at
\* least 2 datasets loaded and a column common to all of them; a run that
\* ends with fewer than 2 loaded datasets, or with no common column, ends on
\* an error message, with no prompt shown and no figure drawn.
C9_ComparisonNeedsTwoAndCommon ==
    mode = "comparison" =>
        /\ ComparisonActed => (Len(all_data) >= 2 /\ InEveryDataset # {})
        /\ (pc = "done" /\ (Len(all_data) < 2 \/ InEveryDataset = {})) =>
              /\ ~ComparisonActed
              /\ \/ status = "exited" /\ Kinds(Len(trace)) = "exit"
                 \/ /\ status = "returned"
                    /\ IF Len(all_data) < 2
                       THEN Has(Msg("Need at least 2 files for comparison"))
                       ELSE Has(Msg("No common columns found across all files"))

C9_Witness ==
    /\ mode = "comparison"
    /\ status = "returned"
    /\ Len(all_data) = 2
    /\ Has(Msg("No common columns found across all files"))
    /\ ~ComparisonActed

\* C10: in Shared mode, once the user pressed the quit keystroke at the
\* chart-type prompt or at a configuration prompt, no strategy is called on
\* any loaded dataset, no configuration is kept, and the run has returned
\* normally, "All files processed!" being the last thing printed.
C10_SharedCancelRendersNothing ==
    (mode = "shared" /\ \E k \in DOMAIN trace : IsCancel(trace[k])) =>
        /\ Len(Renders) = 0
        /\ IsEmptyBag(config)
        /\ pc = "done"
        /\ status = "returned"
        /\ trace[Len(trace)] = Msg("All files processed!")
        /\ \A k \in DOMAIN trace : Kinds(k) \notin {"uncaught", "exit"}

C10_Witness ==
    /\ mode = "shared"
    /\ Len(file_handlers) >= 2
    /\ Has(<<"prompt", "y_axis", {"x", "y", "z"}>>)
    /\ Has(<<"quit", Quit>>)
    /\ Has(Msg("Exiting configuration..."))
    /\ status = "returned"

\* C11: at whichever prompt of the run the quit keystroke is pressed, no
\* KeyboardInterrupt leaves the workflow uncaught.
C11_QuitAlwaysHandled == ~Has(<<"uncaught", "KeyboardInterrupt">>)

\* sys.exit(): status 0; sys.exit("text"): the text on stderr and status 1
ExitStatus(e) == IF e[2] = "" THEN 0 ELSE 1

\* the quit keystroke at history position k answered the prompt of that name
QuitAt(k, name) ==
    /\ k > 1
    /\ IsCancel(trace[k])
    /\ Kinds(k - 1) = "prompt"
    /\ trace[k - 1][2] = name

HoldsFiles(p) == \E k \in DOMAIN listdir(p) : Kind(listdir(p)[k]) = "file"

\* C13: when the configured path does not exist, or holds no regular file,
\* the run has, once past CLIConfig and get_files, exited on the message that
\* says so, with no prompt shown, no file selected and no workflow started.
C13_BadRootPathIsFatal ==
    (/\ backend \notin {None, "Agg"}
     /\ config_path # None
     /\ pc \notin {"cli_config", "files_prompt"}
     /\ ~(PathExists(config_path) /\ HoldsFiles(config_path))) =>
        /\ status = "exited"
        /\ trace[Len(trace)] =
              <<"exit", CASE ~PathExists(config_path) -> "An Error occur: path does not exist"
                          [] config_path = "./notes.txt" -> "Error reading directory"
                          [] OTHER -> "An error occur: folder does not include any file">>
        /\ ExitStatus(trace[Len(trace)]) = 1
        /\ \A k \in DOMAIN trace : Kinds(k) \notin {"prompt", "load", "render"}
        /\ selected_files = << >>
        /\ file_paths = << >>
        /\ mode = None

C13_Witness ==
    /\ config_path = "./empty"
    /\ status = "exited"
    /\ Has(Msg("Scanning directory"))
    /\ Has(<<"exit", "An error occur: folder does not include any file">>)

\* the extensions the claim lists
ListedExtensions == {".csv", ".xlsx", ".xls", ".json", ".txt"}

\* C14: every path the CLI hands to the workflow has a listed extension; once
\* visualize_files has run, each selected file with another extension was
\* answered with the "Skipping ...: CLIError.FileIsNotValid" line, is not in
\* the batch and is never loaded; and when no selected file has a listed
\* extension the run has exited on the no-valid-file-types message with no
\* batch, no mode prompt and no load.
C14_OnlyValidFilesReachTheWorkflow ==
    (config_path # None /\ selected_files # << >> /\ pc # "visualize_files") =>
        /\ \A k \in DOMAIN file_paths : Extension(file_paths[k]) \in ListedExtensions
        /\ \A k \in DOMAIN selected_files :
              LET f == selected_files[k]
              IN  IF Extension(f) \in ListedExtensions
                  THEN f \in Range(file_paths)
                  ELSE /\ Has(<<"msg", "Skipping", f, "CLIError.FileIsNotValid">>)
                       /\ f \notin Range(file_paths)
                       /\ ~Has(<<"load", f>>)
        /\ (\A k \in DOMAIN selected_files :
                Extension(selected_files[k]) \notin ListedExtensions) =>
              /\ status = "exited"
              /\ trace[Len(trace)] =
                    <<"exit", "Folder do not include valid file types for visualize">>
              /\ file_paths = << >>
              /\ mode = None
              /\ \A k \in DOMAIN trace :
                    /\ Kinds(k) # "load"
                    /\ Kinds(k) = "prompt" => trace[k][2] = "files"

C14_Witness ==
    /\ selected_files = <<"a.csv", "d.parquet">>
    /\ file_paths = <<"a.csv">>
    /\ Has(<<"msg", "Skipping", "d.parquet", "CLIError.FileIsNotValid">>)
    /\ Has(<<"load", "a.csv">>)
    /\ Len(Renders) = 1

\* C15: when the run exits while loading a regular file whose extension is
\* not supported, it exits on the validation message "Unsupported file type",
\* not on the read error "Error reading file".
C15_UnsupportedIsValidationError ==
    (/\ status = "exited"
     /\ i \in DOMAIN file_paths
     /\ Kind(file_paths[i]) = "file"
     /\ Extension(file_paths[i]) \notin FileExtension) =>
        trace[Len(trace)] = <<"exit", "Unsupported file type">>

\* the chart-type prompt or the continue prompt is at history position m
LoopPrompt(m) == Kinds(m) = "prompt" /\ trace[m][2] \in {"type", "another"}

\* C16: in a single-dataset session every strategy call carries a non-empty
\* parameter bag, comes right after "Configuration updated", and follows a
\* chart-type prompt answered with the type it renders, with no other
\* chart-type prompt, continue prompt or strategy call in between; and after
\* a cancelled chart-type prompt, a cancelled configuration or the choice of
\* Histogram (empty bag) nothing more is prompted or rendered and the session
\* ends normally.
C16_RenderOnlyAfterTypeAndBag ==
    mode = "single" =>
        /\ \A k \in DOMAIN trace :
              Kinds(k) = "render" =>
                  /\ ~IsEmptyBag(trace[k][2].config)
                  /\ k > 1
                  /\ trace[k - 1] = Msg("Configuration updated")
                  /\ \E j \in 1..(k - 1) :
                        /\ Kinds(j) = "prompt"
                        /\ trace[j][2] = "type"
                        /\ trace[j][3] = trace[k][2].type
                        /\ \A m \in (j + 1)..(k - 1) :
                              Kinds(m) # "render" /\ ~LoopPrompt(m)
        /\ \A k \in DOMAIN trace :
              (\/ trace[k] = <<"prompt", "type", Quit>>
               \/ trace[k] = <<"prompt", "type", HISTOGRAM>>
               \/ trace[k] = Msg("Exiting configuration...")) =>
                  /\ \A m \in (k + 1)..Len(trace) : Kinds(m) \notin {"render", "prompt"}
                  /\ pc \in {"set_strategy", "prompt_configuration", "done"}
                  /\ pc = "done" => status = "returned"

C16_Witness ==
    /\ mode = "single"
    /\ status = "returned"
    /\ Len(Renders) = 2
    /\ Renders[1][2].type = LINE_CHART
    /\ Renders[2][2].type = TABLE
    /\ Has(<<"prompt", "type", Quit>>)

\* the history position right after the strategy call at k and its error line
AfterRender(k) ==
    IF k < Len(trace) /\ trace[k + 1] = Msg("Error creating visualization")
    THEN k + 2 ELSE k + 1

\* C17: in a single-dataset session the continue prompt is shown once after
\* each strategy call (and its error line, if any) and at no other time; the
\* chart-type prompt is shown first right after the load and later only
\* right after the continue prompt answered "yes"; after "no" or the quit
\* keystroke at the continue prompt nothing more is prompted or rendered and
\* the session has ended normally.
C17_ContinuePromptAfterEachRender ==
    mode = "single" =>
        /\ \A k \in DOMAIN trace :
              Kinds(k) = "render" =>
                  IF AfterRender(k) > Len(trace)
                  THEN pc = "another"
                  ELSE /\ Kinds(AfterRender(k)) = "prompt"
                       /\ trace[AfterRender(k)][2] = "another"
        /\ Shown("another") = IF pc = "another" THEN Len(Renders) - 1 ELSE Len(Renders)
        /\ \A k \in DOMAIN trace :
              (Kinds(k) = "prompt" /\ trace[k][2] = "type") =>
                  /\ k > 1
                  /\ \/ Kinds(k - 1) = "load"
                     \/ trace[k - 1] = <<"prompt", "another", "yes">>
        /\ \A k \in DOMAIN trace :
              (Kinds(k) = "prompt" /\ trace[k][2] = "another" /\ trace[k][3] # "yes") =>
                  /\ \A m \in (k + 1)..Len(trace) : Kinds(m) \notin {"render", "prompt"}
                  /\ pc = "done"
                  /\ status = "returned"

C17_Witness ==
    /\ mode = "single"
    /\ status = "returned"
    /\ Len(Renders) = 2
    /\ Has(<<"prompt", "another", "yes">>)
    /\ Has(<<"prompt", "another", "no">>)

\* C18: in a single-dataset session a strategy call that fails is followed at
\* once by "Error creating visualization"; the session then stands at the
\* continue prompt, which is the next thing shown, so the failure neither
\* ends the session nor the process.
C18_RenderFailureKeepsSession ==
    mode = "single" =>
        \A k \in DOMAIN trace :
            (Kinds(k) = "render" /\ ~trace[k][2].ok) =>
                /\ k < Len(trace)
                /\ trace[k + 1] = Msg("Error creating visualization")
                /\ IF Len(trace) = k + 1
                   THEN pc = "another" /\ status = "running"
                   ELSE Kinds(k + 2) = "prompt" /\ trace[k + 2][2] = "another"

\* a chart was created for the same dataset after a failed one
C18_Witness ==
    /\ mode = "single"
    /\ Len(Renders) = 2
    /\ ~Renders[1][2].ok
    /\ Renders[2][2].file = Renders[1][2].file
    /\ Has(<<"prompt", "another", "yes">>)
    /\ status = "returned"

\* C19: when the import finds no interactive backend and prints its warning,
\* the backend is "Agg" and the process goes on (it does not exit at the
\* import), every strategy call then saving its figure to a file.
C19_NoGuiFallsBackToFileOutput ==
    Has(Msg("Warning: No GUI backend found. Using default backend.")) =>
        /\ backend = "Agg"
        /\ ~Has(<<"exit", "">>)
        /\ \A k \in DOMAIN trace : Kinds(k) = "render" => trace[k][2].out = "saved"

\* the strategy call at history position k is a Line or Bar call whose bag
\* holds both axes
AxisCall(k) ==
    /\ Kinds(k) = "render"
    /\ trace[k][2].type \in {LINE_CHART, BAR_CHART}
    /\ {"x_axis", "y_axis"} \subseteq DOMAIN trace[k][2].config

\* both axes of that call name columns of the dataset it is bound to
AxesInDataset(k) ==
    /\ trace[k][2].config.x_axis \in Range(Columns(trace[k][2].file))
    /\ trace[k][2].config.y_axis \in Range(Columns(trace[k][2].file))

\* C20 as stated: in every mode the axes of a Line or Bar call name columns
\* of the dataset bound to the call.
C20_AxesAlwaysInDataset ==
    \A k \in DOMAIN trace : AxisCall(k) => AxesInDataset(k)

\* C20 amended: the axes of a Line or Bar call name columns of the bound
\* dataset in the single-dataset session, in Independent mode and, in Shared
\* mode, for the first loaded dataset, whose columns the prompts offered; for
\* another dataset of a Shared batch they may name a column it lacks, and
\* then the call fails and "Error creating visualization" follows.
C20_AxesInDatasetThatWasPrompted ==
    \A k \in DOMAIN trace :
        AxisCall(k) =>
            /\ mode \in {"single", "independent"} => AxesInDataset(k)
            /\ (mode = "shared" /\ trace[k][2].file = file_handlers[1]) => AxesInDataset(k)
            /\ ~AxesInDataset(k) =>
                  /\ mode = "shared"
                  /\ ~trace[k][2].ok
                  /\ k < Len(trace)
                  /\ trace[k + 1] = Msg("Error creating visualization")

C20_Witness ==
    /\ mode = "shared"
    /\ Len(Renders) = 2
    /\ \E j, k \in DOMAIN trace :
         /\ j < k
         /\ AxisCall(j)
         /\ AxesInDataset(j)
         /\ AxisCall(k)
         /\ ~AxesInDataset(k)

\* the strategy call at history position k is a Table call whose bag holds rows
TableCall(k) ==
    /\ Kinds(k) = "render"
    /\ trace[k][2].type = TABLE
    /\ "rows" \in DOMAIN trace[k][2].config

\* C21: the rows prompt never returns a non-positive number; a Table call
\* with rows = N on a dataset of R rows draws exactly the data rows 1 ..
\* min(N, R) in file order and never more; it fails, drawing none, only on
\* a dataset without rows.
C21_TableShowsFirstRows ==
    /\ pc = "table_title" => rows > 0
    /\ \A k \in DOMAIN trace :
          TableCall(k) =>
              LET N == trace[k][2].config.rows
                  R == Rows(trace[k][2].file)
              IN  /\ N > 0
                  /\ Len(trace[k][2].shown) <= Min(N, R)
                  /\ IF trace[k][2].ok
                     THEN trace[k][2].shown = [j \in 1..Min(N, R) |-> j]
                     ELSE R = 0 /\ trace[k][2].shown = << >>

C21_Witness ==
    /\ mode = "shared"
    /\ status = "returned"
    /\ file_handlers = <<"a.csv", "b.csv", "c.txt">>
    /\ Len(Renders) = 3
    /\ config.rows = 10
    /\ Len(Renders[1][2].shown) = 5
    /\ Len(Renders[2][2].shown) = 10
    /\ Renders[3][2].shown = <<1, 2>>

\* the strategy calls that went through, and those of them that saved a figure
Done == SelectSeq(trace, LAMBDA e : e[1] = "render" /\ e[2].ok)

Saved == SelectSeq(trace, LAMBDA e : e[1] = "render" /\ e[2].ok /\ e[2].out = "saved")

\* the identifiers the claim lets the file name depend on
NameKey(r) ==
    IF r.type = TABLE
    THEN <<TABLE, r.config.title>>
    ELSE <<r.type, r.config.x_axis, r.config.y_axis>>

\* C22: with the backend "Agg" every successful strategy call saves its
\* figure under a name; two such calls with the same chart kind and the same
\* axes (Line, Bar) or the same title (Table) are saved under the same name,
\* whichever dataset each is on, and in Shared mode all the calls of the
\* batch are saved under one name.
C22_SavedNameIgnoresDataset ==
    backend = "Agg" =>
        LET S == Saved
        IN  /\ S = Done
            /\ \A k \in DOMAIN S : S[k][2].path # None
            /\ \A j, k \in DOMAIN S :
                  (mode = "shared" \/ NameKey(S[j][2]) = NameKey(S[k][2])) =>
                      S[j][2].path = S[k][2].path

C22_Witness ==
    /\ backend = "Agg"
    /\ mode = "shared"
    /\ status = "returned"
    /\ file_handlers = <<"a.csv", "b.csv">>
    /\ Len(Renders) = 2
    /\ Renders[1][2].file # Renders[2][2].file
    /\ Renders[1][2].path = "line_chart_x_y.png"
    /\ Renders[2][2].path = "line_chart_x_y.png"

\* the loop over the files has taken up the file at position n of the batch
Attempted(n) ==
    \/ mode \in {"shared", "comparison"} /\ (pc # "load" \/ n < i)
    \/ mode \in {"single", "independent"} /\ (n < i \/ (n = i /\ pc # "setup_file"))

\* the process ended in sys.exit with a message, printed on stderr
ExitedWithMessage ==
    /\ status = "exited"
    /\ Kinds(Len(trace)) = "exit"
    /\ trace[Len(trace)][2] # ""

\* the file of the handler that showed the prompt at history position k: the
\* first load of a Shared run, the latest load before k otherwise
HandlerFile(k) ==
    IF mode = "shared" THEN Loads[1][2]
    ELSE LET j == CHOOSE j \in 1..(k - 1) :
                    /\ Kinds(j) = "load"
                    /\ \A m \in (j + 1)..(k - 1) : Kinds(m) # "load"
         IN  trace[j][2]

\* C23: every error the program catches is answered with a line the user
\* sees: a quit keystroke that is caught is followed at once by an
\* "Exiting"-kind line or by the message of sys.exit; a failed strategy call
\* by "Error creating visualization"; a file whose load fails by its
\* "Failed" / "Error processing" line or by the message the process exits
\* on; the IndexError of the axis prompt on a dataset without columns, where
\* the loop over the files catches it, by "Error processing"; a selected
\* file that is not valid by its "Skipping" line; and the only sys.exit
\* without a message comes right after the printed warning.
C23_EveryCaughtErrorIsReported ==
    /\ \A k \in DOMAIN trace :
          IsCancel(trace[k]) =>
              /\ k < Len(trace)
              /\ \/ trace[k + 1] \in {Msg("Exiting..."), Msg("Exiting configuration..."),
                                       Msg("Exiting visualization..."),
                                       <<"exit", "User Exit">>}
                 \/ trace[k + 1] = <<"uncaught", "KeyboardInterrupt">>
    /\ \A k \in DOMAIN trace :
          (Kinds(k) = "render" /\ ~trace[k][2].ok) =>
              /\ k < Len(trace)
              /\ trace[k + 1] = Msg("Error creating visualization")
    /\ \A n \in DOMAIN file_paths :
          (Attempted(n) /\ ~Loadable(file_paths[n])) =>
              \/ Has(<<"msg", "Failed to load", file_paths[n]>>)
              \/ Has(<<"msg", "Failed", file_paths[n]>>)
              \/ Has(<<"msg", "Error processing", file_paths[n]>>)
              \/ ExitedWithMessage
    /\ \A k \in DOMAIN trace :
          (/\ Kinds(k) = "prompt"
           /\ trace[k][2] = "type"
           /\ trace[k][3] \in {LINE_CHART, BAR_CHART}
           /\ Columns(HandlerFile(k)) = << >>) =>
              IF k = Len(trace)
              THEN pc \in {"set_strategy", "prompt_configuration"}
              ELSE \/ trace[k + 1] = <<"msg", "Error processing", HandlerFile(k)>>
                   \/ trace[k + 1] = <<"uncaught", "IndexError">>
    /\ \A n \in DOMAIN selected_files :
          (pc # "visualize_files" /\ ~validate_suffix(selected_files[n])) =>
              \/ Has(<<"msg", "Skipping", selected_files[n], "CLIError.FileIsNotValid">>)
              \/ ExitedWithMessage
    /\ \A k \in DOMAIN trace :
          trace[k] = <<"exit", "">> =>
              /\ k > 1
              /\ trace[k - 1] = Msg("Warning: No GUI backend found. Using default backend.")

C23_Witness ==
    /\ config_path = "./data"
    /\ mode = "independent"
    /\ file_paths = <<"c.txt", "e.json">>
    /\ Has(Msg("Exiting configuration..."))
    /\ Has(<<"prompt", "type", BAR_CHART>>)
    /\ trace[Len(trace) - 1] = <<"msg", "Error processing", "e.json">>
    /\ status = "returned"

\* the keys of the dict prompt_configuration builds for that chart type
KeysOf(t) ==
    IF t = TABLE THEN {"rows", "title"}
    ELSE IF t \in {LINE_CHART, BAR_CHART} THEN {"x_axis", "y_axis", "title"}
    ELSE {}

\* C24: in a single-dataset session the bag of each strategy call holds the
\* keys of the bag of the call before it and the keys prompted for its own
\* chart type, every key that was not prompted again keeping its value; the
\* bag prompt_configuration returned holds the keys of the current chart
\* type only, with the values the handler's bag has for them.
C24_BagAccumulatesAcrossCharts ==
    mode = "single" =>
        LET R == Renders
        IN  /\ \A n \in 1..(Len(R) - 1) :
                  LET A == R[n][2]
                      B == R[n + 1][2]
                  IN  /\ DOMAIN B.config = DOMAIN A.config \cup KeysOf(B.type)
                      /\ \A key \in DOMAIN A.config \ KeysOf(B.type) :
                            B.config[key] = A.config[key]
            /\ pc \in {"render", "another"} =>
                  /\ DOMAIN config = KeysOf(viz_type)
                  /\ DOMAIN config \subseteq DOMAIN viz_handler.config
                  /\ \A key \in DOMAIN config : viz_handler.config[key] = config[key]
            /\ \A k \in DOMAIN R : KeysOf(R[k][2].type) \subseteq DOMAIN R[k][2].config

C24_Witness ==
    /\ mode = "single"
    /\ pc = "another"
    /\ Len(Renders) = 2
    /\ Renders[1][2].type = LINE_CHART
    /\ Renders[2][2].type = TABLE
    /\ Renders[2][2].config =
          [x_axis |-> "x", y_axis |-> "z", title |-> "Q1 sales", rows |-> 3]
    /\ Renders[2][2].ok
    /\ config = [rows |-> 3, title |-> "Q1 sales"]

Figures == SelectSeq(trace, LAMBDA e : e[1] = "figure")

\* C25: in Comparison mode at most one figure is drawn; a Line figure
\* carries one series per loaded dataset, in load order and labelled with
\* the file's name; a Bar figure carries no series; either figure is shown
\* or saved once and followed at once by "Comparison chart created!", the
\* run then returning normally; and a run that returns after the Y-axis
\* prompt has drawn its figure.
C25_LineOverlayOnlyBarEmpty ==
    mode = "comparison" =>
        /\ Len(Figures) <= 1
        /\ all_data = [n \in DOMAIN Loads |-> Loads[n][2]]
        /\ \A k \in DOMAIN trace :
              Kinds(k) = "figure" =>
                  /\ trace[k][2].type = selected
                  /\ trace[k][2].type = LINE_CHART => trace[k][2].series = all_data
                  /\ trace[k][2].type = BAR_CHART => trace[k][2].series = << >>
                  /\ trace[k][2].out \in {"shown", "saved"}
                  /\ Len(trace) = k + 2
                  /\ trace[k + 1] = Msg("Comparison chart created!")
                  /\ trace[k + 2] = Msg("All files processed!")
                  /\ status = "returned"
        /\ (pc = "done" /\ y_col # None) => Len(Figures) = 1

C25_Witness ==
    /\ mode = "comparison"
    /\ status = "returned"
    /\ all_data = <<"b.csv", "a.csv">>
    /\ selected = BAR_CHART
    /\ Len(Figures) = 1
    /\ Figures[1][2].series = << >>
    /\ Has(Msg("Comparison chart created!"))

\* C26: no file is read twice in a run: the reads of the history are of
\* distinct files; every strategy call is on a dataset read earlier in the
\* run, from the frame its handler keeps; and no read of a file comes after
\* a strategy call on it, however many charts were drawn.
C26_EachFileReadOnce ==
    /\ LET L == Loads
       IN  /\ \A a, b \in DOMAIN L : L[a][2] = L[b][2] => a = b
           /\ Len(L) <= Len(file_paths)
    /\ \A k \in DOMAIN trace :
          Kinds(k) = "render" =>
              /\ \E j \in 1..(k - 1) :
                    Kinds(j) = "load" /\ trace[j][2] = trace[k][2].file
              /\ \A m \in (k + 1)..Len(trace) :
                    Kinds(m) = "load" => trace[m][2] # trace[k][2].file
    /\ mode \in {"single", "independent"} /\ pc \in {"render", "another"} =>
          viz_handler.data = file_paths[i]

C26_Witness ==
    /\ mode = "single"
    /\ status = "returned"
    /\ Len(Renders) = 2
    /\ Renders[1][2].ok
    /\ Renders[2][2].ok
    /\ Loads = << <<"load", "a.csv">> >>

\* C27: in the single-dataset session, in Shared and in Independent mode
\* create_visualization is never called on a handler without a strategy:
\* "No visualization strategy set" is never printed, every strategy call
\* names a strategy, and at the render call the chosen type has one.
C27_NoRenderWithoutStrategy ==
    mode \in {"single", "shared", "independent"} =>
        /\ \A k \in DOMAIN trace :
              /\ trace[k] # Msg("No visualization strategy set")
              /\ Kinds(k) = "render" => trace[k][2].type \in {LINE_CHART, BAR_CHART, TABLE}
        /\ pc = "render" =>
              /\ strategies(viz_type) # None
              /\ mode # "shared" => viz_handler.strategy = strategies(viz_type)
        /\ (viz_handler.strategy = None /\ pc \notin {"type", "set_strategy"}) =>
              pc \in {"setup_file", "load", "prompt_configuration", "done"}

\* a chart was drawn, then Histogram chosen: the strategy is unset and the
\* session over
C27_Witness ==
    /\ mode = "single"
    /\ Len(Renders) = 1
    /\ viz_type = HISTOGRAM
    /\ viz_handler.strategy = None
    /\ Has(Msg("not implemented yet"))
    /\ status = "returned"

\* C28: in a single-dataset session, once Histogram is chosen at the
\* chart-type prompt, whatever was drawn before, the only things that
\* follow are the lines "not implemented yet", "Configuration updated" and
\* "Workflow completed!": no configuration question, no strategy call, no
\* continue prompt and no further chart-type prompt; the bag returned is
\* empty and the run returns normally, as it does after a cancellation.
C28_HistogramEndsSession ==
    mode = "single" =>
        \A k \in DOMAIN trace :
            trace[k] = <<"prompt", "type", HISTOGRAM>> =>
                /\ viz_type = HISTOGRAM
                /\ \A m \in (k + 1)..Len(trace) : Kinds(m) = "msg"
                /\ SubSeq(trace, k + 1, Len(trace)) =
                      SubSeq(<< Msg("not implemented yet"), Msg("Configuration updated"),
                                Msg("Workflow completed!") >>, 1, Len(trace) - k)
                /\ pc = CASE Len(trace) = k -> "set_strategy"
                          [] Len(trace) = k + 1 -> "prompt_configuration"
                          [] OTHER -> "done"
                /\ pc = "done" =>
                      /\ Len(trace) = k + 3
                      /\ IsEmptyBag(config)
                      /\ status = "returned"

C28_Witness ==
    /\ mode = "single"
    /\ status = "returned"
    /\ Len(Renders) = 1
    /\ Renders[1][2].ok
    /\ Len(trace) > 4
    /\ trace[Len(trace) - 4] = <<"prompt", "another", "yes">>
    /\ trace[Len(trace) - 3] = <<"prompt", "type", HISTOGRAM>>
    /\ ~IsEmptyBag(viz_handler.config)

\* the position of the file in the batch
IndexOf(f) == CHOOSE n \in DOMAIN file_paths : file_paths[n] = f

\* the history position of the latest load before position k (0: none)
LastLoadBefore(k) ==
    IF \E j \in 1..(k - 1) : Kinds(j) = "load"
    THEN CHOOSE j \in 1..(k - 1) :
             Kinds(j) = "load" /\ \A m \in (j + 1)..(k - 1) : Kinds(m) # "load"
    ELSE 0

\* C29: in Independent mode the files are loaded in the order of the batch;
\* every strategy call is on the file loaded last, so a file is loaded only
\* after the session of the file before it is over; the session of a file
\* starts on a handler with no strategy and an empty bag; and the bag of
\* the first chart of a session holds the keys prompted for that chart only.
C29_IndependentSessionsAreFresh ==
    mode = "independent" =>
        /\ \A a, b \in DOMAIN Loads :
              a < b => IndexOf(Loads[a][2]) < IndexOf(Loads[b][2])
        /\ (pc # "done" /\ pc # "setup_file") => viz_handler.file = file_paths[i]
        /\ (Len(trace) > 0 /\ Kinds(Len(trace)) = "load") =>
              /\ pc = "type"
              /\ viz_handler.strategy = None
              /\ IsEmptyBag(viz_handler.config)
        /\ \A k \in DOMAIN trace :
              Kinds(k) = "render" =>
                  LET j == LastLoadBefore(k)
                  IN  /\ j > 0
                      /\ trace[k][2].file = trace[j][2]
                      /\ (\A m \in (j + 1)..(k - 1) : Kinds(m) # "render") =>
                            DOMAIN trace[k][2].config = KeysOf(trace[k][2].type)

C29_Witness ==
    /\ mode = "independent"
    /\ status = "returned"
    /\ file_paths = <<"c.txt", "e.json">>
    /\ Len(Renders) = 2
    /\ Renders[1][2].file = "c.txt"
    /\ Renders[1][2].type = LINE_CHART
    /\ Renders[2][2].file = "e.json"
    /\ Renders[2][2].config = [rows |-> 10, title |-> "Data Table"]

\* C30: in the single-dataset session and in Shared mode no exception leaves
\* prompt_configuration: whatever the chart type and the loaded dataset, a
\* dataset without columns included, the run never ends on an uncaught
\* IndexError, and once the configuration step is over the caller holds a
\* bag of the chart type's shape or the empty bag.
C30_ConfigurationNeverRaises ==
    mode \in {"single", "shared"} =>
        /\ ~Has(<<"uncaught", "IndexError">>)
        /\ status # "crashed"
        /\ (pc = "done" /\ viz_type # None) =>
              (IsEmptyBag(config) \/ DOMAIN config = KeysOf(viz_type))

====
